---- MODULE Spec2Model ----
(***************************************************************************)
(* Session and workspace-permission authorization engine of bako-safe-api. *)
(*                                                                         *)
(* Modelled from                                                           *)
(*   src/unnamed/part_000           AuthController (signIn, signOut,       *)
(*                                  updateWorkspace)                       *)
(*   src/src/modules/user/types.ts  authMiddleware, authPermissionMiddleware*)
(*   src/unnamed/part_002           WorkspaceController (create, update,   *)
(*                                  updatePermissions, addMember,          *)
(*                                  removeMember)                          *)
(*   src/unnamed/part_001           PredicateController.create             *)
(*   src/src/modules/predicate/services.ts  PredicateService.create        *)
(* The collaborators those files call but that are not part of the source  *)
(* tree (AuthService, TokenUtils, WorkspaceService, UserService,           *)
(* PredicateService, NotificationService, Web3Utils,                       *)
(* validatePermissionGeneral, defaultPermissions, the save() of an entity) *)
(* follow spec.md. The Predicate and Notification tables are not part of   *)
(* the state: nothing modelled here reads them.                            *)
(*                                                                         *)
(* A handler is an async function: it gives way at each await, and the     *)
(* requests in flight are served in any order in between. An action is one *)
(* awaited call of a handler together with the code that runs up to the    *)
(* next await; what the handler has read so far is kept with the request.  *)
(*                                                                         *)
(* Time is counted in minutes.                                             *)
(***************************************************************************)
EXTENDS Integers, Sequences, FiniteSets, TLC

VARIABLES
    now,        \* server clock (new Date()), minutes
    env,        \* process.env.TOKEN_EXPIRATION_TIME: unset, or a decimal string
    users,      \* the User table: a set of rows
    tokens,     \* the UserToken table: a set of session rows
    workspaces, \* the Workspace table: id -> row
    procs,      \* the requests in flight: where each is, and what it has read
    resp        \* what the step just taken answered, if it answered

vars == <<now, env, users, tokens, workspaces, procs, resp>>

---------------------------------------------------------------------------
(* Bounds                                                                  *)

MaxTime == 2

\* the workspace table takes this many rows
MaxWorkspaces == 3

---------------------------------------------------------------------------
(* Universe                                                                *)

None == "none"

\* the users that exist from the start, each with the address of its wallet
Users == {"u1", "u2"}
AddressOf == [u \in Users |-> IF u = "u1" THEN "a1" ELSE "a2"]
\* "a0" is an address no user record has at the start
Addresses == {"a1", "a2", "a0"}
\* "u9" is an id no user record ever has
NoSuchUser == "u9"

\* "w0" is an id no workspace row has
WsIds == {"w1", "w2"}
WsIdInputs == WsIds \cup {"w0"}

Wildcard == "*"
Capabilities == {Wildcard, "vault:create", "view"}
\* defaultPermissions[PermissionRoles.VIEWER]: read-only, never the wildcard
ViewerPermissions == {"view"}
\* defaultPermissions[PermissionRoles.OWNER]: always holds the wildcard
OwnerPermissions == {Wildcard}
\* what the signer of a vault may do in the workspace of the vault
SignerPermissions == {"vault:sign"}

\* the times a client asserts: the earliest and the latest of the clock
CreatedAts == {0, MaxTime}

---------------------------------------------------------------------------
(* Configuration: process.env.TOKEN_EXPIRATION_TIME ?? '15'                *)

\* a decimal string is the sequence of its digits
DefaultExpiration == <<1, 5>>

RECURSIVE Number(_)
Number(s) ==
    IF s = <<>> THEN 0
    ELSE 10 * Number(SubSeq(s, 1, Len(s) - 1)) + s[Len(s)]

Unset == [defined |-> FALSE, value |-> <<>>]
SetTo(s) == [defined |-> TRUE, value |-> s]

expiresIn == IF env.defined THEN env.value ELSE DefaultExpiration

addMinutes(date, amount) == date + amount

---------------------------------------------------------------------------
(* Signatures (Web3Utils.verifySignature, spec.md 4.1)                     *)

\* JSON.stringify(payloadWithoutSignature): the body without signature and
\* workspace_id
Payload(address, user_id, createdAt) ==
    [address |-> address, user_id |-> user_id, createdAt |-> createdAt]

\* the signature a key holder produces over a message
Sign(signer, message) == [signer |-> signer, message |-> message]

NoSignature == Sign(None, Payload(None, None, -1))

verifySignature(signature, message, signerAddress) ==
    /\ signature.signer = signerAddress
    /\ signature.message = message

---------------------------------------------------------------------------
(* User store (UserService / User rows)                                    *)

\* a row: id, address and the notification opt-in, which u2 has given
InitUsers ==
    {[id |-> u, address |-> AddressOf[u], notify |-> (u = "u2")] :
        u \in Users}

\* the id the store gives to the user it creates
CreatedUserId == "u3"

\* a string of at most 36 characters is taken for an id, a longer one for
\* an address: an id is a UUID (36 characters), an address is longer
Length(member) == IF member \in Addresses THEN 66 ELSE 36

\* userService.findOne(id): the id of the row, or nothing
findOne(table, id) ==
    IF \E u \in table : u.id = id THEN id ELSE None

\* userService.findByAddress(address): the id of the row, or nothing
findByAddress(table, address) ==
    IF \E u \in table : u.address = address
    THEN (CHOOSE u \in table : u.address = address).id
    ELSE None

\* userService.create({address, ...}): a new row, without the opt-in; the
\* address is unique
create(table, address) ==
    table \cup {[id |-> CreatedUserId, address |-> address,
                 notify |-> FALSE]}

\* member.notify of the row with this id
notify(table, id) == \E u \in table : u.id = id /\ u.notify

---------------------------------------------------------------------------
(* Session store (AuthService / UserToken rows, spec.md 4.2)               *)

SessionIds == 1..(2 * Cardinality(Users) + 2)

Row(id, token, user, workspace, expired_at) ==
    [id |-> id, token |-> token, user |-> user, workspace |-> workspace,
     expired_at |-> expired_at]

NoRow == Row(0, NoSignature, None, None, -1)

\* ids are generated by the store; an id nobody holds any more is as good
\* as a new one
HeldIds ==
    {procs[p].token.id : p \in DOMAIN procs}
        \cup {procs[p].userToken.id : p \in DOMAIN procs}

NewId(store) ==
    CHOOSE i \in SessionIds :
        /\ i \notin {r.id : r \in store} \cup HeldIds
        /\ \A j \in 1..(i - 1) : j \in {r.id : r \in store} \cup HeldIds

\* authService.findToken({userId}): some row of that user, or undefined
findToken(store, userId) ==
    IF \E r \in store : r.user = userId
    THEN {r \in store : r.user = userId}
    ELSE {NoRow}

\* authService.signOut(user): the user's rows are gone
AuthService_signOut(store, user) == {r \in store : r.user # user}

\* authService.signIn(payload): a new row
AuthService_signIn(store, token, expired_at, user, workspace) ==
    store \cup {Row(NewId(store), token, user, workspace, expired_at)}

\* entity.save(): insert or update by primary key
save(store, row) == {r \in store : r.id # row.id} \cup {row}

isPast(date) == now > date

Live(r) == ~isPast(r.expired_at)

---------------------------------------------------------------------------
(* Permission model (spec.md 4.4)                                          *)

\* an endpoint that declares no permission list at all
NoPermission == {None}

hasEntry(workspace, userId) == userId \in DOMAIN workspace.permissions

effectiveCapabilities(workspace, userId) ==
    IF userId = workspace.owner THEN {Wildcard}
    ELSE IF hasEntry(workspace, userId) THEN workspace.permissions[userId]
    ELSE {}

satisfies(capabilitySet, required) ==
    \/ Wildcard \in capabilitySet
    \/ required \subseteq capabilitySet

validatePermissionGeneral(workspace, userId, permission) ==
    satisfies(effectiveCapabilities(workspace, userId), permission)

---------------------------------------------------------------------------
(* authPermissionMiddleware(permission)(req): "Ok" stands for next()       *)

\* a gate that stops at the entry check
authPermissionMiddleware_noValidate(permission, user, workspace) ==
    IF permission = NoPermission \/ permission = {} THEN "Ok"
    ELSE IF user = None \/ workspace = None THEN "MissingCredentials"
    ELSE IF ~hasEntry(workspaces[workspace], user) THEN "MissingPermission"
    ELSE "Ok"

\* a gate that lets the members of the workspace through without an entry
authPermissionMiddleware_membersPass(permission, user, workspace) ==
    IF permission = NoPermission \/ permission = {} THEN "Ok"
    ELSE IF user = None \/ workspace = None THEN "MissingCredentials"
    ELSE IF ~hasEntry(workspaces[workspace], user)
    THEN IF user \in workspaces[workspace].members
         THEN "Ok" ELSE "MissingPermission"
    ELSE IF validatePermissionGeneral(workspaces[workspace], user, permission)
    THEN "Ok"
    ELSE "MissingPermission"

authPermissionMiddleware(permission, user, workspace) ==
    IF permission = NoPermission \/ permission = {} THEN "Ok"
    ELSE IF user = None \/ workspace = None THEN "MissingCredentials"
    ELSE IF ~hasEntry(workspaces[workspace], user) THEN "MissingPermission"
    ELSE IF validatePermissionGeneral(workspaces[workspace], user, permission)
    THEN "Ok"
    ELSE "MissingPermission"

---------------------------------------------------------------------------
(* Collaborators of the handlers                                           *)

\* new WorkspaceService().filter({id}).list().then(r => r[0])
listById(id) == IF id \in DOMAIN workspaces THEN id ELSE None

\* new WorkspaceService().filter({owner, single: true}).list().then(r => r[0])
listSingleByOwner(owner) ==
    LET found == {w \in DOMAIN workspaces :
                     workspaces[w].owner = owner /\ workspaces[w].single}
    IN  IF found = {} THEN None ELSE CHOOSE w \in found : TRUE

\* TokenUtils.recoverToken(signature): the rows holding that token
recoverToken(store, signature) ==
    IF \E r \in store : r.token = signature
    THEN {r \in store : r.token = signature}
    ELSE {NoRow}

\* TokenUtils.renewToken(token): expiry is evaluated before renewal, on the
\* row the request holds; the renewed row is saved
renewToken(store, token) ==
    IF isPast(token.expired_at)
    THEN [ok |-> FALSE, tokens |-> store, token |-> token]
    ELSE LET renewed ==
                 [token EXCEPT !.expired_at = addMinutes(now, Number(expiresIn))]
         IN  [ok |-> TRUE, tokens |-> save(store, renewed), token |-> renewed]

\* TokenUtils.checkUserExists(signerAddress)
checkUserExists(table, address) == findByAddress(table, address)

\* TokenUtils.findLoggedWorkspace(token)
findLoggedWorkspace(token) == listById(token.workspace)

---------------------------------------------------------------------------
(* Requests in flight                                                      *)

Procs == {1, 2}

NoBody ==
    [address |-> None, user_id |-> None, createdAt |-> -1,
     signature |-> NoSignature, workspace_id |-> None]

\* a workspace the query did not find (data[0] of an empty list)
NoWorkspace ==
    [owner |-> None, single |-> FALSE, name |-> None, members |-> {},
     permissions |-> [u \in {} |-> {}]]

\* pc names the step the request takes next.
\*   signature, signerAddress, permission: the headers of an authenticated
\*     request and the permission list its route declares
\*   userToken, user, workspace, trail: req.userToken, req.user,
\*     req.workspace, and the checks of the chain passed so far; in signIn,
\*     user and workspace are the rows the handler has looked up
\*   body: the body of a signIn
\*   id, member, permissions: the workspace, the user and the permission
\*     set the request names in its parameters and body
\*   token, row, _member: the session row, the workspace row and the user
\*     the handler has read
\*   addresses, members, membersWithoutLoggedUser: in
\*     PredicateController.create, the addresses of the body not yet
\*     looked up, the users found or created for those looked up, and the
\*     members not yet notified
IdleProc ==
    [pc |-> "idle", op |-> None, body |-> NoBody,
     signature |-> NoSignature, signerAddress |-> None,
     permission |-> NoPermission,
     userToken |-> NoRow, user |-> None, workspace |-> None, trail |-> <<>>,
     id |-> None, member |-> None, permissions |-> NoPermission,
     token |-> NoRow, row |-> NoWorkspace, _member |-> None,
     addresses |-> <<>>, members |-> <<>>,
     membersWithoutLoggedUser |-> <<>>]

\* the handler was called, on its own (idle) or by the chain of middleware
Called(p, handler) == procs[p].pc \in {"idle", handler}

---------------------------------------------------------------------------
(* Responses                                                               *)

NoResp ==
    [op |-> None, status |-> None, stage |-> None, user |-> None,
     token |-> NoSignature, ws |-> None, target |-> None,
     prev |-> NoSignature, perm |-> NoPermission, address |-> None,
     trail |-> <<>>]

\* the handler returns: the response is sent and the request is over
Answer(p, response) ==
    /\ resp' = response
    /\ procs' = [procs EXCEPT ![p] = IdleProc]

\* the handler awaits its next call: nothing is answered
Await(p, request) ==
    /\ procs' = [procs EXCEPT ![p] = request]
    /\ resp' = NoResp

---------------------------------------------------------------------------
(* Initial states                                                          *)

\* the workspace created with each user: single, owned, owner has the
\* OWNER permissions
SingleWorkspace(owner) ==
    [owner |-> owner, single |-> TRUE, name |-> "n0", members |-> {owner},
     permissions |-> [u \in {owner} |-> OwnerPermissions]]

InitWorkspaces ==
    [w \in WsIds |-> SingleWorkspace(IF w = "w1" THEN "u1" ELSE "u2")]

\* u1 has added u2 to w1 (addMember("w1", "u2") on InitWorkspaces)
SharedWorkspaces ==
    [InitWorkspaces EXCEPT
        !["w1"].members = {"u1", "u2"},
        !["w1"].permissions =
            [u \in {"u1", "u2"} |->
                IF u = "u1" THEN OwnerPermissions ELSE ViewerPermissions]]

\* the server starts with this clock, configuration, workspace table and
\* session store; no request is in flight
Start(time, environment, table, store) ==
    /\ now = time
    /\ env = environment
    /\ users = InitUsers
    /\ tokens = store
    /\ workspaces = table
    /\ procs = [p \in Procs |-> IdleProc]
    /\ resp = NoResp

\* the clock advances
Tick ==
    /\ now < MaxTime
    /\ now' = now + 1
    /\ resp' = NoResp
    /\ UNCHANGED <<env, users, tokens, workspaces, procs>>

---------------------------------------------------------------------------
(* AuthController.signIn                                                   *)

\* a signIn that takes every signature for good
signIn_verifySignature_skipped(body) == TRUE

\* part_000:28-35
signIn_verifySignature(body) ==
    verifySignature(body.signature,
                    Payload(body.address, body.user_id, body.createdAt),
                    body.address)

\* a signIn that counts the expiry from the server clock
signIn_payload_fromServerTime(body, user, workspace) ==
    [token |-> body.signature,
     expired_at |-> addMinutes(now, Number(expiresIn)),
     user |-> user, workspace |-> workspace]

\* part_000:29, 57-65: what is handed to authService.signIn
signIn_payload(body, user, workspace) ==
    [token |-> body.signature,
     expired_at |-> addMinutes(body.createdAt, Number(expiresIn)),
     user |-> user, workspace |-> workspace]

\* existingToken is what findToken({userId: body.user_id}) returned
SignInResp(body, existingToken, status) ==
    [NoResp EXCEPT !.op = "signIn", !.status = status,
                   !.user = body.user_id, !.token = body.signature,
                   !.prev = existingToken.token]

\* part_000:26-39
signIn_findToken(p, body) ==
    /\ procs[p].pc = "idle"
    /\ IF ~signIn_verifySignature(body)
       THEN Answer(p, SignInResp(body, NoRow, "InvalidSignature"))
       ELSE \E existingToken \in findToken(tokens, body.user_id) :
                Await(p, [IdleProc EXCEPT
                             !.pc = IF existingToken # NoRow
                                    THEN "signIn_signOut" ELSE "signIn_list",
                             !.op = "signIn", !.body = body,
                             !.token = existingToken])
    /\ UNCHANGED <<now, env, users, tokens, workspaces>>

\* part_000:41-43
signIn_signOut(p) ==
    /\ procs[p].pc = "signIn_signOut"
    /\ tokens' = AuthService_signOut(tokens, procs[p].token.user)
    /\ Await(p, [procs[p] EXCEPT !.pc = "signIn_list"])
    /\ UNCHANGED <<now, env, users, workspaces>>

\* part_000:45-55
signIn_list(p) ==
    /\ procs[p].pc = "signIn_list"
    /\ LET body == procs[p].body
           workspace ==
               IF body.workspace_id # None
               THEN listById(body.workspace_id)
               ELSE listSingleByOwner(body.user_id)
       IN  Await(p, [procs[p] EXCEPT !.pc = "signIn_findOne",
                                     !.workspace = workspace])
    /\ UNCHANGED <<now, env, users, tokens, workspaces>>

\* part_000:63
signIn_findOne(p) ==
    /\ procs[p].pc = "signIn_findOne"
    /\ Await(p, [procs[p] EXCEPT
                    !.pc = "signIn_insert",
                    !.user = findOne(users, procs[p].body.user_id)])
    /\ UNCHANGED <<now, env, users, tokens, workspaces>>

\* part_000:57-67
signIn_insert(p) ==
    /\ procs[p].pc = "signIn_insert"
    /\ LET payload == signIn_payload(procs[p].body, procs[p].user,
                                     procs[p].workspace)
       IN  /\ tokens' = AuthService_signIn(tokens, payload.token,
                                           payload.expired_at, payload.user,
                                           payload.workspace)
           /\ Answer(p, [SignInResp(procs[p].body, procs[p].token, "Ok")
                            EXCEPT !.ws = payload.workspace])
    /\ UNCHANGED <<now, env, users, workspaces>>

\* part_000:45-72: one of the calls awaited after the sign-out (the
\* workspace query, userService.findOne, authService.signIn) rejects, and
\* the catch block answers with the error
signIn_catch(p) ==
    /\ procs[p].pc \in {"signIn_list", "signIn_findOne", "signIn_insert"}
    /\ Answer(p, SignInResp(procs[p].body, procs[p].token, "Error"))
    /\ UNCHANGED <<now, env, users, tokens, workspaces>>

---------------------------------------------------------------------------
(* AuthController.signOut: a single awaited call                           *)

Outcome(store, response) == [tokens |-> store, resp |-> response]

\* a signOut that clears the sessions of every user
signOut_everyone(user) ==
    Outcome({},
            [NoResp EXCEPT !.op = "signOut", !.status = "Ok", !.user = user])

\* part_000:75-83; user is req.user
signOut(user) ==
    Outcome(AuthService_signOut(tokens, user),
            [NoResp EXCEPT !.op = "signOut", !.status = "Ok", !.user = user])

SignOut(user) ==
    LET out == signOut(user)
    IN  /\ tokens' = out.tokens
        /\ resp' = out.resp
        /\ UNCHANGED <<now, env, users, workspaces, procs>>

---------------------------------------------------------------------------
(* AuthController.updateWorkspace                                          *)

\* an updateWorkspace that switches for the members of the target only
updateWorkspace_membersOnly(user, workspaceId, workspace, token) ==
    LET isUserMember == user \in workspace.members
    IN  IF isUserMember
        THEN [token EXCEPT !.workspace = workspaceId]
        ELSE token

\* part_000:100-109: workspace is the row listed, token the row found; the
\* token as it is saved
updateWorkspace(user, workspaceId, workspace, token) ==
    LET isUserMember == user \in workspace.members
        hasPermission == hasEntry(workspace, user)
    IN  IF isUserMember \/ hasPermission
        THEN [token EXCEPT !.workspace = workspaceId]
        ELSE token

\* prev is the credential the request was authenticated with, if it was
UpdateWorkspaceResp(req, user, workspaceId, status) ==
    [NoResp EXCEPT !.op = "updateWorkspace", !.status = status,
                   !.user = user, !.target = workspaceId,
                   !.prev = req.signature]

\* part_000:87-98
updateWorkspace_list(p, user, workspaceId) ==
    /\ Called(p, "updateWorkspace")
    /\ IF listById(workspaceId) = None
       THEN Answer(p, UpdateWorkspaceResp(procs[p], user, workspaceId,
                                          "NotFound"))
       ELSE Await(p, [procs[p] EXCEPT
                         !.pc = "updateWorkspace_findToken",
                         !.op = "updateWorkspace",
                         !.member = user, !.id = workspaceId,
                         !.row = workspaces[workspaceId]])
    /\ UNCHANGED <<now, env, users, tokens, workspaces>>

\* part_000:100-109; without a row of the user, token is undefined and the
\* handler ends in a TypeError
updateWorkspace_findToken(p) ==
    /\ procs[p].pc = "updateWorkspace_findToken"
    /\ LET req == procs[p]
       IN  \E token \in findToken(tokens, req.member) :
               IF token = NoRow
               THEN Answer(p, UpdateWorkspaceResp(req, req.member, req.id,
                                                  "Error"))
               ELSE Await(p, [req EXCEPT
                                 !.pc = "updateWorkspace_save",
                                 !.token = updateWorkspace(req.member, req.id,
                                                           req.row, token)])
    /\ UNCHANGED <<now, env, users, tokens, workspaces>>

\* part_000:111-125; a saved row without a workspace makes
\* response.workspace.id throw
updateWorkspace_save(p) ==
    /\ procs[p].pc = "updateWorkspace_save"
    /\ LET req == procs[p]
           response == req.token
       IN  /\ tokens' = save(tokens, response)
           /\ Answer(p, IF response.workspace = None
                        THEN UpdateWorkspaceResp(req, req.member, req.id,
                                                 "Error")
                        ELSE [UpdateWorkspaceResp(req, req.member, req.id,
                                                  "Ok")
                                 EXCEPT !.ws = response.workspace,
                                        !.token = response.token])
    /\ UNCHANGED <<now, env, users, workspaces>>

---------------------------------------------------------------------------
(* authMiddleware, then authPermissionMiddleware(permission), then the     *)
(* handler of the route. next() calls the next function of the chain at    *)
(* once, so the gate, which awaits nothing, runs in the step that ends     *)
(* authMiddleware.                                                         *)

\* an authMiddleware that goes on without looking at the headers
authMiddleware_credentials_unchecked(signature, signerAddress) == TRUE

\* an authMiddleware that asks for the authorization header only
authMiddleware_credentials_signatureOnly(signature, signerAddress) ==
    signature # NoSignature

\* types.ts:109-118
authMiddleware_credentials(signature, signerAddress) ==
    signature # NoSignature /\ signerAddress # None

\* the checks of the chain, in the order they are passed
AllChecks == <<"credentials", "recovered", "renewed", "attached", "capability">>

\* next(): the check is passed and the chain goes on
Passed(req, check, pc) ==
    [req EXCEPT !.pc = pc, !.trail = Append(@, check)]

\* next(e), or the answer of the endpoint
RequestResp(req, stage, status) ==
    [NoResp EXCEPT !.op = "request", !.stage = stage, !.status = status,
                   !.token = req.signature, !.user = req.user,
                   !.ws = req.workspace, !.perm = req.permission,
                   !.address = req.signerAddress, !.target = req.op,
                   !.trail = req.trail]

\* types.ts:106-120; the request arrives with its headers at a route that
\* declares permission and is served by handler
authMiddleware_recoverToken(p, handler, signature, signerAddress, permission) ==
    /\ procs[p].pc = "idle"
    /\ LET req == [IdleProc EXCEPT !.op = handler, !.signature = signature,
                                   !.signerAddress = signerAddress,
                                   !.permission = permission]
           checked == Passed(req, "credentials", "idle")
       IN  IF ~authMiddleware_credentials(signature, signerAddress)
           THEN Answer(p, RequestResp(req, "auth", "MissingCredentials"))
           ELSE \E token \in recoverToken(tokens, signature) :
                    IF token = NoRow
                    THEN Answer(p, RequestResp(checked, "auth",
                                               "InvalidCredential"))
                    ELSE Await(p, [Passed(checked, "recovered",
                                          "authMiddleware_renewToken")
                                      EXCEPT !.userToken = token])
    /\ UNCHANGED <<now, env, users, tokens, workspaces>>

\* an authMiddleware that never calls renewToken
authMiddleware_renewToken_skipped(p) ==
    /\ procs[p].pc = "authMiddleware_renewToken"
    /\ Await(p, Passed(procs[p], "renewed", "authMiddleware_checkUserExists"))
    /\ UNCHANGED <<now, env, users, tokens, workspaces>>

\* types.ts:121
authMiddleware_renewToken(p) ==
    /\ procs[p].pc = "authMiddleware_renewToken"
    /\ LET renewal == renewToken(tokens, procs[p].userToken)
       IN  IF ~renewal.ok
           THEN /\ Answer(p, RequestResp(procs[p], "auth", "ExpiredSession"))
                /\ UNCHANGED tokens
           ELSE /\ tokens' = renewal.tokens
                /\ Await(p, [Passed(procs[p], "renewed",
                                    "authMiddleware_checkUserExists")
                                EXCEPT !.userToken = renewal.token])
    /\ UNCHANGED <<now, env, users, workspaces>>

\* types.ts:123-124
authMiddleware_checkUserExists(p) ==
    /\ procs[p].pc = "authMiddleware_checkUserExists"
    /\ LET user == checkUserExists(users, procs[p].signerAddress)
       IN  IF user = None
           THEN Answer(p, RequestResp(procs[p], "auth", "NotFound"))
           ELSE Await(p, [procs[p] EXCEPT
                             !.pc = "authMiddleware_findLoggedWorkspace",
                             !.user = user])
    /\ UNCHANGED <<now, env, users, tokens, workspaces>>

\* types.ts:125-127, 134-197
authMiddleware_findLoggedWorkspace(p) ==
    /\ procs[p].pc = "authMiddleware_findLoggedWorkspace"
    /\ LET workspace == findLoggedWorkspace(procs[p].userToken)
           req == Passed([procs[p] EXCEPT !.workspace = workspace],
                         "attached", "idle")
           gate == authPermissionMiddleware(req.permission, req.user,
                                            req.workspace)
       IN  IF gate # "Ok"
           THEN Answer(p, RequestResp(req, "permission", gate))
           ELSE Await(p, Passed(req, "capability", req.op))
    /\ UNCHANGED <<now, env, users, tokens, workspaces>>

\* a protected endpoint that touches no session and no workspace answers
endpoint(p) ==
    /\ procs[p].pc = "endpoint"
    /\ Answer(p, RequestResp(procs[p], "endpoint", "Ok"))
    /\ UNCHANGED <<now, env, users, tokens, workspaces>>

---------------------------------------------------------------------------
(* WorkspaceController                                                     *)

WsOutcome(status, workspace) == [status |-> status, workspace |-> workspace]

EditResp(op, id, member, permissions, status) ==
    [NoResp EXCEPT !.op = op, !.ws = id, !.target = member,
                   !.perm = permissions, !.status = status]

\* the request with the workspace row it has listed
Listed(pc, op, id, member, permissions) ==
    [IdleProc EXCEPT !.pc = pc, !.op = op, !.id = id, !.member = member,
                     !.permissions = permissions,
                     !.row = IF listById(id) = None
                             THEN NoWorkspace ELSE workspaces[id]]

\* an updatePermissions without the owner check
updatePermissions_ownerToo(workspace, member, permissions) ==
    LET old == workspace.permissions
        new == [u \in DOMAIN old \cup {member} |->
                   IF u = member THEN permissions ELSE old[u]]
    IN  WsOutcome("Ok", [workspace EXCEPT !.permissions = new])

\* part_002:127-139: workspace is the row listed; the row as it is saved
updatePermissions(workspace, member, permissions) ==
    LET old == workspace.permissions
        new == [u \in DOMAIN old \cup {member} |->
                   IF u = member THEN permissions ELSE old[u]]
    IN  IF workspace.owner = member
        THEN WsOutcome("MissingPermission", workspace)
        ELSE WsOutcome("Ok", [workspace EXCEPT !.permissions = new])

\* part_002:110-139; for an unknown id data[0] is undefined and
\* workspace.owner throws
updatePermissions_list(p, id, member, permissions) ==
    /\ procs[p].pc = "idle"
    /\ LET req == Listed("updatePermissions_save", "updatePermissions", id,
                         member, permissions)
           status == IF req.row = NoWorkspace THEN "Error"
                     ELSE updatePermissions(req.row, member,
                                            permissions).status
       IN  IF status # "Ok"
           THEN Answer(p, EditResp("updatePermissions", id, member,
                                   permissions, status))
           ELSE Await(p, req)
    /\ UNCHANGED <<now, env, users, tokens, workspaces>>

\* part_002:141-144
updatePermissions_save(p) ==
    /\ procs[p].pc = "updatePermissions_save"
    /\ LET req == procs[p]
       IN  /\ workspaces' =
                  [workspaces EXCEPT ![req.id] =
                      updatePermissions(req.row, req.member,
                                        req.permissions).workspace]
           /\ Answer(p, EditResp("updatePermissions", req.id, req.member,
                                 req.permissions, "Ok"))
    /\ UNCHANGED <<now, env, users, tokens>>

\* an addMember that keeps the entry it finds for the new member
addMember_keepEntry(workspace, _member) ==
    LET old == workspace.permissions
        new == [u \in DOMAIN old \cup {_member} |->
                   IF u \in DOMAIN old THEN old[u] ELSE ViewerPermissions]
    IN  IF _member \notin workspace.members
        THEN [workspace EXCEPT !.members = @ \cup {_member},
                               !.permissions = new]
        ELSE workspace

\* part_002:183-187: workspace is the row listed, _member the user found or
\* created; the row as it is saved
addMember(workspace, _member) ==
    LET old == workspace.permissions
        new == [u \in DOMAIN old \cup {_member} |->
                   IF u = _member THEN ViewerPermissions ELSE old[u]]
    IN  IF _member \notin workspace.members
        THEN [workspace EXCEPT !.members = @ \cup {_member},
                               !.permissions = new]
        ELSE workspace

\* part_002:150-168; for an unknown id data[0] is undefined, and the
\* handler goes on to look the member up
addMember_list(p, id, member) ==
    /\ procs[p].pc = "idle"
    /\ Await(p, Listed(IF Length(member) <= 36
                       THEN "addMember_findOne"
                       ELSE "addMember_findByAddress",
                       "addMember", id, member, NoPermission))
    /\ UNCHANGED <<now, env, users, tokens, workspaces>>

\* part_002:183-189, up to the call of save(): without a user _member.id
\* throws, without a workspace workspace.members does
addMember_found(p, _member) ==
    IF _member = None \/ procs[p].row = NoWorkspace
    THEN Answer(p, EditResp("addMember", procs[p].id, procs[p].member,
                            NoPermission, "Error"))
    ELSE Await(p, [procs[p] EXCEPT !.pc = "addMember_save",
                                   !._member = _member])

\* part_002:168-169
addMember_findOne(p) ==
    /\ procs[p].pc = "addMember_findOne"
    /\ addMember_found(p, findOne(users, procs[p].member))
    /\ UNCHANGED <<now, env, users, tokens, workspaces>>

\* part_002:170-173, 180: without a row the handler asks for an avatar
addMember_findByAddress(p) ==
    /\ procs[p].pc = "addMember_findByAddress"
    /\ LET data == findByAddress(users, procs[p].member)
       IN  IF data = None
           THEN Await(p, [procs[p] EXCEPT !.pc = "addMember_randomAvatar"])
           ELSE addMember_found(p, data)
    /\ UNCHANGED <<now, env, users, tokens, workspaces>>

\* part_002:177: randomAvatar reads nothing a request writes; with the
\* avatar the handler calls create
addMember_randomAvatar(p) ==
    /\ procs[p].pc = "addMember_randomAvatar"
    /\ Await(p, [procs[p] EXCEPT !.pc = "addMember_create"])
    /\ UNCHANGED <<now, env, users, tokens, workspaces>>

\* part_002:174-178; the insert of an address that has got a row in the
\* meantime fails
addMember_create(p) ==
    /\ procs[p].pc = "addMember_create"
    /\ IF \E u \in users : u.address = procs[p].member
       THEN /\ addMember_found(p, None)
            /\ UNCHANGED users
       ELSE /\ users' = create(users, procs[p].member)
            /\ addMember_found(p, CreatedUserId)
    /\ UNCHANGED <<now, env, tokens, workspaces>>

\* part_002:189
addMember_save(p) ==
    /\ procs[p].pc = "addMember_save"
    /\ LET req == procs[p]
       IN  /\ workspaces' =
                  [workspaces EXCEPT ![req.id] =
                      addMember(req.row, req._member)]
           /\ Answer(p, [EditResp("addMember", req.id, req.member,
                                  NoPermission, "Ok")
                            EXCEPT !.user = req._member])
    /\ UNCHANGED <<now, env, users, tokens>>

\* a removeMember without the owner check
removeMember_ownerToo(workspace, member) ==
    LET old == workspace.permissions
        new == [u \in DOMAIN old \ {member} |-> old[u]]
    IN  WsOutcome("Ok", [workspace EXCEPT !.members = @ \ {member},
                                          !.permissions = new])

\* part_002:209-220: workspace is the row listed; the row as it is saved
removeMember(workspace, member) ==
    LET old == workspace.permissions
        new == [u \in DOMAIN old \ {member} |-> old[u]]
    IN  IF workspace.owner = member
        THEN WsOutcome("MissingPermission", workspace)
        ELSE WsOutcome("Ok", [workspace EXCEPT !.members = @ \ {member},
                                               !.permissions = new])

\* part_002:195-220; for an unknown id data[0].owner throws
removeMember_list(p, id, member) ==
    /\ procs[p].pc = "idle"
    /\ LET req == Listed("removeMember_save", "removeMember", id, member,
                         NoPermission)
           status == IF req.row = NoWorkspace THEN "Error"
                     ELSE removeMember(req.row, member).status
       IN  IF status # "Ok"
           THEN Answer(p, EditResp("removeMember", id, member, NoPermission,
                                   status))
           ELSE Await(p, req)
    /\ UNCHANGED <<now, env, users, tokens, workspaces>>

\* part_002:222
removeMember_save(p) ==
    /\ procs[p].pc = "removeMember_save"
    /\ LET req == procs[p]
       IN  /\ workspaces' =
                  [workspaces EXCEPT ![req.id] =
                      removeMember(req.row, req.member).workspace]
           /\ Answer(p, EditResp("removeMember", req.id, req.member,
                                 NoPermission, "Ok"))
    /\ UNCHANGED <<now, env, users, tokens>>

---------------------------------------------------------------------------
(* WorkspaceController.create and update                                   *)

\* the ids the table gives the workspaces that users create, in order
CreatedWsIds == <<"w3", "w4">>

NewWsId(table) ==
    CreatedWsIds[Cardinality(DOMAIN table) - Cardinality(WsIds) + 1]

\* WorkspaceService.includeMembers(members, owner): the members named and
\* the owner, the owner with the OWNER permissions and every other member
\* with the VIEWER ones
includeMembers(members, owner) ==
    [_members |-> members \cup {owner},
     _permissions |-> [u \in members \cup {owner} |->
                          IF u = owner THEN OwnerPermissions
                          ELSE ViewerPermissions]]

\* WorkspaceService.create(payload): the table with the row under a new id
WorkspaceService_create(table, payload) ==
    [w \in DOMAIN table \cup {NewWsId(table)} |->
        IF w \in DOMAIN table THEN table[w] ELSE payload]

\* WorkspaceService.update({...body, id}): the table with every field the
\* body carries written to the row of that id, if there is one; the body is
\* a record of some of the fields of a row
WorkspaceService_update(table, id, body) ==
    IF id \in DOMAIN table
    THEN [table EXCEPT ![id] =
             [f \in DOMAIN @ |-> IF f \in DOMAIN body THEN body[f] ELSE @[f]]]
    ELSE table

\* part_002:48-56: the handler awaits includeMembers; the table takes at
\* most MaxWorkspaces rows
create_includeMembers(p, user, name, members) ==
    /\ procs[p].pc = "idle"
    /\ Cardinality(DOMAIN workspaces)
          + Cardinality({q \in Procs : procs[q].pc = "create_create"})
       < MaxWorkspaces
    /\ LET included == includeMembers(members, user)
       IN  Await(p, [IdleProc EXCEPT
                        !.pc = "create_create", !.op = "create",
                        !.user = user,
                        !.row = [owner |-> user, single |-> FALSE,
                                 name |-> name,
                                 members |-> included._members,
                                 permissions |-> included._permissions]])
    /\ UNCHANGED <<now, env, users, tokens, workspaces>>

\* part_002:58-66
create_create(p) ==
    /\ procs[p].pc = "create_create"
    /\ workspaces' = WorkspaceService_create(workspaces, procs[p].row)
    /\ Answer(p, [EditResp("create", NewWsId(workspaces), None,
                           NoPermission, "Created")
                     EXCEPT !.user = procs[p].user])
    /\ UNCHANGED <<now, env, users, tokens>>

\* part_002:89-97: the whole of req.body goes to WorkspaceService.update
update_update(p, id, body) ==
    /\ procs[p].pc = "idle"
    /\ workspaces' = WorkspaceService_update(workspaces, id, body)
    /\ Await(p, [IdleProc EXCEPT !.pc = "update_list", !.op = "update",
                                 !.id = id])
    /\ UNCHANGED <<now, env, users, tokens>>

\* part_002:98-104: the row is listed again and answered
update_list(p) ==
    /\ procs[p].pc = "update_list"
    /\ Answer(p, EditResp("update", procs[p].id, None, NoPermission, "Ok"))
    /\ UNCHANGED <<now, env, users, tokens, workspaces>>

---------------------------------------------------------------------------
(* PredicateController.create                                              *)

\* WorkspaceService.includeSigner(signers, predicate, workspace): every
\* signer gets the signer permissions in the map of the workspace, on top
\* of what the signer's entry holds; members are not changed
includeSigner(table, signers, workspace) ==
    LET old == table[workspace].permissions
        new == [u \in DOMAIN old \cup signers |->
                   IF u \notin signers THEN old[u]
                   ELSE IF u \in DOMAIN old
                   THEN old[u] \cup SignerPermissions
                   ELSE SignerPermissions]
    IN  [table EXCEPT ![workspace].permissions = new]

\* the set of the elements of a sequence
Range(seq) == {seq[i] : i \in DOMAIN seq}

PredicateResp(req, status) ==
    [NoResp EXCEPT !.op = "predicateCreate", !.ws = req.workspace,
                   !.user = req.user, !.status = status]

\* part_001:51-55: the handler starts the loop over payload.addresses,
\* which gives way before each address
predicateCreate(p, addresses, user, workspace) ==
    /\ procs[p].pc = "idle"
    /\ Await(p, [IdleProc EXCEPT
                    !.pc = IF addresses = <<>> THEN "predicateCreate_create"
                           ELSE "predicateCreate_findByAddress",
                    !.op = "predicateCreate", !.addresses = addresses,
                    !.user = user, !.workspace = workspace])
    /\ UNCHANGED <<now, env, users, tokens, workspaces>>

\* part_001:66, and 55 again or 69: the user is pushed and the loop goes on
\* to the next address, or ends
predicateCreate_push(p, user) ==
    LET rest == Tail(procs[p].addresses)
    IN  Await(p, [procs[p] EXCEPT
                     !.pc = IF rest = <<>> THEN "predicateCreate_create"
                            ELSE "predicateCreate_findByAddress",
                     !.addresses = rest,
                     !.members = Append(@, user)])

\* part_001:56-58
predicateCreate_findByAddress(p) ==
    /\ procs[p].pc = "predicateCreate_findByAddress"
    /\ LET data == findByAddress(users, Head(procs[p].addresses))
       IN  IF data = None
           THEN Await(p, [procs[p] EXCEPT
                             !.pc = "predicateCreate_randomAvatar"])
           ELSE predicateCreate_push(p, data)
    /\ UNCHANGED <<now, env, users, tokens, workspaces>>

\* part_001:62
predicateCreate_randomAvatar(p) ==
    /\ procs[p].pc = "predicateCreate_randomAvatar"
    /\ Await(p, [procs[p] EXCEPT !.pc = "predicateCreate_userCreate"])
    /\ UNCHANGED <<now, env, users, tokens, workspaces>>

\* part_001:59-66; the insert of an address that has got a row in the
\* meantime fails, and the handler answers with the error (109-111)
predicateCreate_userCreate(p) ==
    /\ procs[p].pc = "predicateCreate_userCreate"
    /\ IF \E u \in users : u.address = Head(procs[p].addresses)
       THEN /\ Answer(p, PredicateResp(procs[p], "Error"))
            /\ UNCHANGED users
       ELSE /\ users' = create(users, Head(procs[p].addresses))
            /\ predicateCreate_push(p, CreatedUserId)
    /\ UNCHANGED <<now, env, tokens, workspaces>>

\* part_001:69-81: predicateService.create stores the vault with its
\* members (services.ts:43-57); the arguments of includeSigner are then
\* evaluated, and without a workspace on the request workspace.id throws:
\* the handler answers with the error and includeSigner is not called
predicateCreate_create(p) ==
    /\ procs[p].pc = "predicateCreate_create"
    /\ IF procs[p].workspace = None
       THEN Answer(p, PredicateResp(procs[p], "Error"))
       ELSE Await(p, [procs[p] EXCEPT !.pc = "predicateCreate_includeSigner"])
    /\ UNCHANGED <<now, env, users, tokens, workspaces>>

\* part_001:89 or 105: the next member to notify, or the last call
predicateCreate_notify(p, left) ==
    Await(p, [procs[p] EXCEPT
                 !.pc = IF left = <<>> THEN "predicateCreate_findById"
                        ELSE "predicateCreate_notification",
                 !.membersWithoutLoggedUser = left])

\* part_001:77-87: req.workspace is a row of the table, and includeSigner
\* writes its map; the members are then filtered, and without a user on the
\* request user.id throws for the first member: the handler answers with
\* the error
predicateCreate_includeSigner(p) ==
    /\ procs[p].pc = "predicateCreate_includeSigner"
    /\ LET req == procs[p]
       IN  /\ workspaces' = includeSigner(workspaces, Range(req.members),
                                          req.workspace)
           /\ IF req.user = None /\ req.members # <<>>
              THEN Answer(p, PredicateResp(req, "Error"))
              ELSE predicateCreate_notify(p,
                       SelectSeq(req.members, LAMBDA m : m # req.user))
    /\ UNCHANGED <<now, env, users, tokens>>

\* part_001:90-96: notificationService.create for the member, then the
\* mail if the member has opted in
predicateCreate_notification(p) ==
    /\ procs[p].pc = "predicateCreate_notification"
    /\ LET left == procs[p].membersWithoutLoggedUser
       IN  IF notify(users, Head(left))
           THEN Await(p, [procs[p] EXCEPT !.pc = "predicateCreate_sendMail"])
           ELSE predicateCreate_notify(p, Tail(left))
    /\ UNCHANGED <<now, env, users, tokens, workspaces>>

\* part_001:97-101
predicateCreate_sendMail(p) ==
    /\ procs[p].pc = "predicateCreate_sendMail"
    /\ predicateCreate_notify(p, Tail(procs[p].membersWithoutLoggedUser))
    /\ UNCHANGED <<now, env, users, tokens, workspaces>>

\* part_001:104-108
predicateCreate_findById(p) ==
    /\ procs[p].pc = "predicateCreate_findById"
    /\ Answer(p, PredicateResp(procs[p], "Ok"))
    /\ UNCHANGED <<now, env, users, tokens, workspaces>>
---------------------------------------------------------------------------
(* Inputs                                                                  *)

\* what a client of user u sends: the body signed with the key of the address
\* it names (valid) or with another key (invalid)
SignInBodies ==
    {[address |-> AddressOf[u], user_id |-> u, createdAt |-> c,
      signature |-> Sign(k, Payload(AddressOf[u], u, c)), workspace_id |-> w] :
        u \in Users, c \in CreatedAts, k \in {"a1", "a2"},
        w \in {None} \cup WsIdInputs}

\* bodies with a valid signature and no workspace_id
ConcBodies ==
    {b \in SignInBodies :
        /\ verifySignature(b.signature,
                           Payload(b.address, b.user_id, b.createdAt),
                           b.address)
        /\ b.workspace_id = None}

\* the authorization header: absent, or a signature some sign-in accepts
Signatures == {NoSignature} \cup {b.signature : b \in ConcBodies}

SignerAddresses == Addresses \cup {None}

PermissionInputs == {{"vault:create"}, {Wildcard}}

\* ids of users that exist or not, and addresses that have a user or not
MemberInputs == Users \cup {NoSuchUser} \cup Addresses

EnvValues == {Unset, SetTo(<<1>>), SetTo(<<2, 0>>)}

\* the store after these users have signed in, one after the other, with a
\* body of ConcBodies each, under this configuration on this workspace
\* table: signIn of u1 stores the first row, signIn of u2 the second
SignedIn(bodies, environment, table) ==
    {Row(IF b.user_id = "u1" THEN 1 ELSE 2, b.signature, b.user_id,
         CHOOSE w \in DOMAIN table :
             table[w].owner = b.user_id /\ table[w].single,
         addMinutes(b.createdAt,
                    Number(IF environment.defined THEN environment.value
                           ELSE DefaultExpiration))) : b \in bodies}

---------------------------------------------------------------------------
(* Spec: the sessions of u1 over time, with TOKEN_EXPIRATION_TIME=1 so     *)
(* that sessions expire within MaxTime: sign-ins, sign-outs and            *)
(* authenticated requests of u1 to an endpoint that declares no            *)
(* permission, two requests at a time.                                     *)

Init == Start(0, SetTo(<<1>>), SharedWorkspaces, {})

SpecBodies == {b \in ConcBodies : b.user_id = "u1"}

SpecSignatures == {b.signature : b \in SpecBodies}

Next ==
    \/ Tick
    \/ SignOut("u1")
    \/ \E p \in Procs :
          \/ \E body \in SpecBodies : signIn_findToken(p, body)
          \/ signIn_signOut(p)
          \/ signIn_list(p)
          \/ signIn_findOne(p)
          \/ signIn_insert(p)
          \/ \E s \in SpecSignatures :
                authMiddleware_recoverToken(p, "endpoint", s, "a1",
                                            NoPermission)
          \/ authMiddleware_renewToken(p)
          \/ authMiddleware_checkUserExists(p)
          \/ authMiddleware_findLoggedWorkspace(p)
          \/ endpoint(p)

Spec == Init /\ [][Next]_vars

---------------------------------------------------------------------------
(* ConcSpec: sign-in requests of both users served concurrently.           *)

ConcInit == Start(0, Unset, InitWorkspaces, {})

FirstBodies == {b \in ConcBodies : b.createdAt = 0}

ConcNext ==
    \E p \in Procs :
        \/ \E body \in FirstBodies : signIn_findToken(p, body)
        \/ signIn_signOut(p)
        \/ signIn_list(p)
        \/ signIn_findOne(p)
        \/ signIn_insert(p)

ConcSpec == ConcInit /\ [][ConcNext]_vars

---------------------------------------------------------------------------
(* FailSpec: sign-ins of u1 in which a call awaited after the sign-out may *)
(* reject.                                                                 *)

FailInit == Start(0, Unset, InitWorkspaces, {})

FailNext ==
    \E p \in Procs :
        \/ \E body \in SpecBodies : signIn_findToken(p, body)
        \/ signIn_signOut(p)
        \/ signIn_list(p)
        \/ signIn_findOne(p)
        \/ signIn_insert(p)
        \/ signIn_catch(p)

FailSpec == FailInit /\ [][FailNext]_vars

---------------------------------------------------------------------------
(* TtlSpec: signIn at any server time under any configuration              *)

TtlInit == \E t \in 0..MaxTime, e \in EnvValues : Start(t, e, InitWorkspaces, {})

TtlNext ==
    \/ SignOut("u1")
    \/ \E p \in Procs :
          \/ \E body \in SpecBodies : signIn_findToken(p, body)
          \/ signIn_signOut(p)
          \/ signIn_list(p)
          \/ signIn_findOne(p)
          \/ signIn_insert(p)

TtlSpec == TtlInit /\ [][TtlNext]_vars

---------------------------------------------------------------------------
(* OutSpec: sign-ins and sign-outs of both users while the clock goes on,  *)
(* with TOKEN_EXPIRATION_TIME=1 so that sessions expire within MaxTime and *)
(* a user may hold a session that is stored and no longer live.            *)

OutInit == Start(0, SetTo(<<1>>), InitWorkspaces, {})

OutNext ==
    \/ Tick
    \/ \E user \in Users : SignOut(user)
    \/ \E p \in Procs :
          \/ \E body \in FirstBodies : signIn_findToken(p, body)
          \/ signIn_signOut(p)
          \/ signIn_list(p)
          \/ signIn_findOne(p)
          \/ signIn_insert(p)

OutSpec == OutInit /\ [][OutNext]_vars

---------------------------------------------------------------------------
(* ReqSpec: requests walk through authMiddleware,                          *)
(* authPermissionMiddleware(permission) and the protected endpoint while   *)
(* the clock goes on. u1 has signed in at time 0 and is in the single      *)
(* workspace w1, of which u2 is a VIEWER member. A request may come        *)
(* without a header, with the signature of a sign-in that was never made,  *)
(* and under any signer address.                                           *)

ReqBodies == {b \in SpecBodies : b.createdAt = 0}

ReqInit ==
    Start(0, SetTo(<<1>>), SharedWorkspaces,
          SignedIn(ReqBodies, SetTo(<<1>>), SharedWorkspaces))

ReqSignatures == {NoSignature} \cup SpecSignatures

ReqPermissions == {{}, {"vault:create"}}

ReqNext ==
    \/ Tick
    \/ \E p \in Procs :
          \/ \E s \in ReqSignatures, a \in SignerAddresses,
                perm \in ReqPermissions :
                authMiddleware_recoverToken(p, "endpoint", s, a, perm)
          \/ authMiddleware_renewToken(p)
          \/ authMiddleware_checkUserExists(p)
          \/ authMiddleware_findLoggedWorkspace(p)
          \/ endpoint(p)

ReqSpec == ReqInit /\ [][ReqNext]_vars

---------------------------------------------------------------------------
(* SwitchSpec: updateWorkspace behind authMiddleware, and signOut. Both    *)
(* users have signed in, each in their single workspace; u2 is a member of *)
(* w1. A requester presents the token of their session under their         *)
(* address; the body names a user and a workspace.                         *)

SwitchInit ==
    Start(0, Unset, SharedWorkspaces,
          SignedIn(FirstBodies, Unset, SharedWorkspaces))

SwitchNext ==
    \/ \E user \in Users : SignOut(user)
    \/ \E p \in Procs :
          \/ \E body \in FirstBodies :
                authMiddleware_recoverToken(p, "updateWorkspace",
                                            body.signature, body.address,
                                            NoPermission)
          \/ authMiddleware_renewToken(p)
          \/ authMiddleware_checkUserExists(p)
          \/ authMiddleware_findLoggedWorkspace(p)
          \/ \E user \in Users, w \in WsIds :
                updateWorkspace_list(p, user, w)
          \/ updateWorkspace_findToken(p)
          \/ updateWorkspace_save(p)

SwitchSpec == SwitchInit /\ [][SwitchNext]_vars

---------------------------------------------------------------------------
(* WsSpec: the sessions of u2 being issued, switched and ended while u2 is *)
(* given an entry in w1, from the state in which each user has their       *)
(* single workspace.                                                       *)

WsInit == Start(0, Unset, InitWorkspaces, {})

\* u2 signs in with or without a workspace_id; without one, also with a
\* signature that does not verify
WsBodies ==
    {b \in SignInBodies :
        /\ b.user_id = "u2"
        /\ b.createdAt = 0
        /\ \/ b.signature.signer = "a2" /\ b.workspace_id \in {None, "w1", "w0"}
           \/ b.signature.signer = "a1" /\ b.workspace_id = None}

WsNext ==
    \/ \E user \in Users : SignOut(user)
    \/ \E p \in Procs :
          \/ \E body \in WsBodies : signIn_findToken(p, body)
          \/ signIn_signOut(p)
          \/ signIn_list(p)
          \/ signIn_findOne(p)
          \/ signIn_insert(p)
          \/ \E w \in WsIdInputs : updateWorkspace_list(p, "u2", w)
          \/ updateWorkspace_findToken(p)
          \/ updateWorkspace_save(p)
          \/ updatePermissions_list(p, "w1", "u2", {"vault:create"})
          \/ updatePermissions_save(p)

WsSpec == WsInit /\ [][WsNext]_vars

---------------------------------------------------------------------------
(* EditSpec: membership and permission edits served concurrently. u2 is a  *)
(* member of w1 with a custom entry, one that is neither a role default    *)
(* nor a set that a request of this specification submits.                 *)

CustomPermissions == {"vault:create", "view"}

\* u1 has added u2 to w1 and given u2 the custom entry
\* (updatePermissions("w1", "u2", CustomPermissions) on SharedWorkspaces)
EditWorkspaces ==
    [SharedWorkspaces EXCEPT
        !["w1"].permissions =
            [u \in {"u1", "u2"} |->
                IF u = "u1" THEN OwnerPermissions ELSE CustomPermissions]]

EditInit == Start(0, Unset, EditWorkspaces, {})

EditNext ==
    \E p \in Procs :
        \/ \E m \in Users, perm \in PermissionInputs :
               updatePermissions_list(p, "w1", m, perm)
        \/ updatePermissions_save(p)
        \/ \E m \in MemberInputs : addMember_list(p, "w1", m)
        \* on a workspace that is not stored, by id and by address
        \/ \E m \in {"u2", "a0"} : addMember_list(p, "w0", m)
        \/ addMember_findOne(p)
        \/ addMember_findByAddress(p)
        \/ addMember_randomAvatar(p)
        \/ addMember_create(p)
        \/ addMember_save(p)
        \/ \E m \in Users \cup {CreatedUserId} : removeMember_list(p, "w1", m)
        \/ removeMember_save(p)

EditSpec == EditInit /\ [][EditNext]_vars

---------------------------------------------------------------------------
(* OwnerSpec: u2 creates workspaces, w1 is updated, u1 creates vaults in   *)
(* w1, and u2 is added to w1 and to the first workspace created, from the  *)
(* state in which each user has their single workspace.                    *)

OwnerInit == Start(0, Unset, InitWorkspaces, {})

\* payload.addresses of the vaults: the signers are the owner of the
\* workspace, an address without a user record, and a user who has opted
\* in to mail
PredicateAddresses == {<<"a1", "a0", "a2">>}

\* req.user and req.workspace of those requests: u1 in w1, or one of the
\* two missing from the request
PredicateContexts ==
    {[user |-> "u1", workspace |-> "w1"],
     [user |-> "u1", workspace |-> None],
     [user |-> None, workspace |-> "w1"]}

\* req.body of update: a new name, a new name with a new permissions map,
\* or a new set of members
UpdateBodies ==
    {[name |-> "n1"],
     [name |-> "n1", permissions |-> [u \in {"u2"} |-> {Wildcard}]],
     [members |-> {"u2"}]}

OwnerNext ==
    \E p \in Procs :
        \/ \E members \in {{}, {"u1"}} :
               create_includeMembers(p, "u2", "n1", members)
        \/ create_create(p)
        \/ \E body \in UpdateBodies : update_update(p, "w1", body)
        \/ update_list(p)
        \/ \E w \in {"w1", "w3"} : addMember_list(p, w, "u2")
        \/ addMember_findOne(p)
        \/ addMember_save(p)
        \/ \E addresses \in PredicateAddresses, context \in PredicateContexts :
               predicateCreate(p, addresses, context.user, context.workspace)
        \/ predicateCreate_findByAddress(p)
        \/ predicateCreate_randomAvatar(p)
        \/ predicateCreate_userCreate(p)
        \/ predicateCreate_create(p)
        \/ predicateCreate_includeSigner(p)
        \/ predicateCreate_notification(p)
        \/ predicateCreate_sendMail(p)
        \/ predicateCreate_findById(p)

OwnerSpec == OwnerInit /\ [][OwnerNext]_vars

---------------------------------------------------------------------------
(* GateSpec: authPermissionMiddleware over every content of the            *)
(* permissions map of w1 (owner u1), every request context and every       *)
(* declared permission list                                                *)

PermissionMaps ==
    UNION {[d -> SUBSET Capabilities] : d \in SUBSET Users}

GateWorkspaces ==
    {[InitWorkspaces EXCEPT !["w1"].members = m, !["w1"].permissions = perms] :
        m \in {{"u1"}, {"u1", "u2"}}, perms \in PermissionMaps}

GatePermissions == {NoPermission} \cup SUBSET {"vault:create", "view"}

GateInit == \E table \in GateWorkspaces : Start(0, Unset, table, {})

Gate(permission, user, workspace) ==
    /\ resp' = [NoResp EXCEPT
                   !.op = "gate",
                   !.status = authPermissionMiddleware(permission, user,
                                                       workspace),
                   !.user = user, !.ws = workspace, !.perm = permission]
    /\ UNCHANGED <<now, env, users, tokens, workspaces, procs>>

GateNext ==
    \E permission \in GatePermissions, user \in Users \cup {None},
       workspace \in WsIds \cup {None} :
        Gate(permission, user, workspace)

GateSpec == GateInit /\ [][GateNext]_vars

---------------------------------------------------------------------------
(* Properties                                                              *)

RecoverableIn(store, t) == \E r \in store : r.token = t

LiveSessionsOf(u) == {r \in tokens : r.user = u /\ Live(r)}

\* the owner, a member, or the holder of a permissions-map entry
BelongsTo(u, w) ==
    /\ w \in DOMAIN workspaces
    /\ \/ workspaces[w].owner = u
       \/ u \in workspaces[w].members
       \/ hasEntry(workspaces[w], u)

\* the configured TTL in minutes
ConfiguredMinutes ==
    CASE env = Unset -> 15
      [] env = SetTo(<<1>>) -> 1
      [] env = SetTo(<<2, 0>>) -> 20

IssuedTokens == Signatures \ {NoSignature}

\* the users there can be
UserIds == Users \cup {CreatedUserId}

\* the request p has taken a step
Moved(p) == procs'[p] # procs[p]

\* a request arrives and is answered in its first step
AnsweredAtOnce(op) == procs' = procs /\ resp'.op = op

\* C1 (ConcSpec): in every reachable state, under every interleaving of
\* concurrent signIn requests, each user has at most one live session in
\* the session store.
C1_AtMostOneLiveSession ==
    \A u \in Users : Cardinality(LiveSessionsOf(u)) <= 1

\* C2 (Spec): once a token is superseded, that is, it is not recoverable
\* while its user holds a session with another token, no request presenting
\* it gets past the recovery of the session, and it becomes recoverable
\* again only by a successful signIn that issues it.
C2_SecondSignInInvalidatesFirst ==
    [][\A t1 \in IssuedTokens :
          (/\ ~RecoverableIn(tokens, t1)
           /\ \E r \in tokens :
                 r.user = t1.message.user_id /\ r.token # t1)
          => /\ \A p \in Procs :
                   (procs[p].pc = "idle" /\ Moved(p)
                    /\ procs'[p].signature = t1)
                   => FALSE
             /\ (resp'.op = "request" /\ resp'.token = t1
                 /\ AnsweredAtOnce("request"))
                => resp'.status = "InvalidCredential"
             /\ RecoverableIn(tokens', t1)
                => /\ resp'.op = "signIn"
                   /\ resp'.status = "Ok"
                   /\ resp'.token = t1
      ]_vars

\* C3 (WsSpec): the active workspace of every live session is a workspace of
\* which the session's user is the owner, a member, or the holder of a
\* permissions-map entry.
C3_ActiveWorkspaceBelongsToUser ==
    \A r \in tokens : Live(r) => BelongsTo(r.user, r.workspace)

\* C4 (GateSpec): a request of the owner of the active workspace passes the
\* permission gate for every non-empty required capability set, whatever
\* the permissions map holds.
C4_OwnerAlwaysPasses ==
    (/\ resp.op = "gate"
     /\ resp.ws # None
     /\ resp.user # None
     /\ resp.perm # NoPermission
     /\ resp.perm # {}
     /\ resp.user = workspaces[resp.ws].owner)
    => resp.status = "Ok"

\* C5 (GateSpec): for a non-empty required capability set, a request of a
\* user who is not the owner and has no entry in the permissions map of the
\* active workspace is rejected with MissingPermission, member or not.
C5_NoEntryIsRejected ==
    (/\ resp.op = "gate"
     /\ resp.ws # None
     /\ resp.user # None
     /\ resp.perm # NoPermission
     /\ resp.perm # {}
     /\ resp.user # workspaces[resp.ws].owner
     /\ resp.user \notin DOMAIN workspaces[resp.ws].permissions)
    => resp.status = "MissingPermission"

\* a member without an entry has been rejected
C5_Witness ==
    /\ resp.op = "gate"
    /\ resp.ws = "w1"
    /\ resp.user = "u2"
    /\ resp.perm = {"view"}
    /\ "u2" \in workspaces["w1"].members
    /\ "u2" \notin DOMAIN workspaces["w1"].permissions
    /\ resp.status = "MissingPermission"

\* C6 (GateSpec): for a user who is not the owner and has an entry in the
\* permissions map, and a non-empty required capability set, the gate
\* admits the request exactly when the entry holds the wildcard or every
\* required capability, and rejects it with MissingPermission otherwise.
C6_AdmitsIffSatisfies ==
    (/\ resp.op = "gate"
     /\ resp.ws # None
     /\ resp.user # None
     /\ resp.perm # NoPermission
     /\ resp.perm # {}
     /\ resp.user # workspaces[resp.ws].owner
     /\ resp.user \in DOMAIN workspaces[resp.ws].permissions)
    => LET entry == workspaces[resp.ws].permissions[resp.user]
       IN  IF Wildcard \in entry \/ resp.perm \subseteq entry
           THEN resp.status = "Ok"
           ELSE resp.status = "MissingPermission"

\* an entry without the wildcard that lacks one of two required capabilities
\* has been rejected
C6_Witness ==
    /\ resp.op = "gate"
    /\ resp.ws = "w1"
    /\ resp.user = "u2"
    /\ resp.perm = {"vault:create", "view"}
    /\ "u2" \in DOMAIN workspaces["w1"].permissions
    /\ workspaces["w1"].permissions["u2"] = {"view"}
    /\ resp.status = "MissingPermission"

\* C7 (Spec): a request whose session, as the request recovered it, has an
\* expired_at earlier than the clock is rejected with ExpiredSession and
\* changes no session; and a request is not admitted past the renewal while
\* the session it recovered is stored with an expired_at earlier than the
\* clock.
C7_ExpiredStaysRejected ==
    [][\A p \in Procs :
          (procs[p].pc = "authMiddleware_renewToken" /\ Moved(p)) =>
             LET rejected ==
                     /\ procs'[p].pc = "idle"
                     /\ resp'.op = "request"
                     /\ resp'.status = "ExpiredSession"
                     /\ tokens' = tokens
             IN  /\ isPast(procs[p].userToken.expired_at) => rejected
                 /\ (\E r \in tokens :
                        /\ r.id = procs[p].userToken.id
                        /\ isPast(r.expired_at))
                    => rejected
      ]_vars

\* C8 (Spec): a request is rejected with ExpiredSession when the clock is
\* past the expired_at of the session it recovered; otherwise it passes the
\* renewal, and the session is then stored with expired_at = the clock +
\* the configured window, the same in every other field; and a request
\* reaches the endpoint only past the renewal.
C8_SlidingExpiry ==
    [][\A p \in Procs :
          /\ (procs[p].pc = "authMiddleware_renewToken" /\ Moved(p)) =>
                LET token == procs[p].userToken
                IN  IF now > token.expired_at
                    THEN /\ resp'.op = "request"
                         /\ resp'.status = "ExpiredSession"
                    ELSE /\ procs'[p].pc = "authMiddleware_checkUserExists"
                         /\ procs'[p].userToken =
                               [token EXCEPT
                                   !.expired_at = now + ConfiguredMinutes]
                         /\ procs'[p].userToken \in tokens'
                         /\ \A r \in tokens' :
                               r.id = token.id => r = procs'[p].userToken
          /\ (procs'[p].pc = "authMiddleware_checkUserExists" /\ Moved(p))
             => procs[p].pc = "authMiddleware_renewToken"
          /\ procs'[p].pc = "endpoint"
             => \E i \in 1..Len(procs'[p].trail) :
                   procs'[p].trail[i] = "renewed"
      ]_vars

\* an admitted request has moved the expiry of its session past the one the
\* session was issued with
C8_Witness ==
    /\ resp.op = "request"
    /\ resp.stage = "endpoint"
    /\ resp.status = "Ok"
    /\ now > 0
    /\ \E r \in tokens :
          /\ r.token = resp.token
          /\ r.expired_at = now + ConfiguredMinutes
          /\ r.expired_at > r.token.message.createdAt + ConfiguredMinutes

\* C9 (TtlSpec): the session issued by signIn expires at the createdAt of
\* the body plus the configured TTL in minutes, 15 when
\* TOKEN_EXPIRATION_TIME is not set, whatever the server clock reads.
C9_ExpiryFromCreatedAt ==
    (resp.op = "signIn" /\ resp.status = "Ok")
    => \E r \in tokens :
          /\ r.token = resp.token
          /\ r.user = resp.user
          /\ r.expired_at = resp.token.message.createdAt + ConfiguredMinutes

\* a session issued under the default configuration while the server clock
\* differs from createdAt
C9_Witness ==
    /\ resp.op = "signIn"
    /\ resp.status = "Ok"
    /\ env = Unset
    /\ now # resp.token.message.createdAt
    /\ \E r \in tokens :
          /\ r.token = resp.token
          /\ r.expired_at = resp.token.message.createdAt + 15

\* C10 (WsSpec): an updateWorkspace request that found its user neither
\* among the members nor in the permissions map of the target workspace
\* does not answer with success.
C10_SwitchToForeignWorkspaceRejected ==
    [][\A p \in Procs :
          (/\ procs[p].pc = "updateWorkspace_save"
           /\ Moved(p)
           /\ procs[p].member \notin procs[p].row.members
           /\ procs[p].member \notin DOMAIN procs[p].row.permissions)
          => resp'.status # "Ok"
      ]_vars

\* C11 (WsSpec): updateWorkspace lists the target as it is stored and then
\* finds the session of the named user; the session it saves has the token,
\* user and expired_at of the one it found, with the target as workspace
\* when the user is one of the members or holds an entry in the permissions
\* map of the target it listed, and with the workspace it found otherwise;
\* it writes that row and no other, and touches no session when the target
\* does not exist.
C11_SwitchOnlyForMembersOrEntries ==
    [][/\ (resp'.op = "updateWorkspace" /\ resp'.status = "NotFound")
          => /\ tokens' = tokens
             /\ resp'.target \notin DOMAIN workspaces
       /\ \A p \in Procs :
            LET c == procs[p]
                d == procs'[p]
                allowed == \/ c.member \in c.row.members
                           \/ c.member \in DOMAIN c.row.permissions
            IN  /\ (d.pc = "updateWorkspace_findToken" /\ Moved(p)) =>
                      /\ tokens' = tokens
                      /\ d.row = workspaces[d.id]
                /\ (c.pc = "updateWorkspace_findToken" /\ Moved(p)) =>
                      /\ tokens' = tokens
                      /\ d.pc = "updateWorkspace_save"
                         => \E token \in tokens :
                               /\ token.user = c.member
                               /\ d.token =
                                     [token EXCEPT !.workspace =
                                         IF allowed THEN c.id
                                         ELSE token.workspace]
                /\ (c.pc = "updateWorkspace_save" /\ Moved(p)) =>
                      /\ c.token \in tokens'
                      /\ \A r \in tokens : r.id # c.token.id => r \in tokens'
                      /\ \A r \in tokens' : r = c.token \/ r \in tokens
                      /\ resp'.status = "Ok"
                         => resp'.ws = c.token.workspace
      ]_vars

\* u2, who holds an entry in w1 without being one of its members, has been
\* switched to w1
C11_Witness ==
    /\ resp.op = "updateWorkspace"
    /\ resp.status = "Ok"
    /\ resp.user = "u2"
    /\ resp.target = "w1"
    /\ "u2" \notin workspaces["w1"].members
    /\ "u2" \in DOMAIN workspaces["w1"].permissions
    /\ \E r \in tokens : r.user = "u2" /\ r.workspace = "w1"

\* the first n checks of the chain
Checks(n) == SubSeq(AllChecks, 1, n)

\* C12 (ReqSpec): a request moves through the chain in the order
\* credentials present, session recovered, session renewed, user and
\* workspace attached, capability check; each check either passes to the
\* next or rejects with its error, decided by the condition the check is
\* about; the endpoint is reached only with all five checks passed, and a
\* request is answered either by the endpoint, with success, or with the
\* error of the check that rejected it, having passed the checks before it.
C12_GateOrder ==
    [][/\ AnsweredAtOnce("request") =>
             /\ resp'.stage = "auth"
             /\ tokens' = tokens
             /\ IF resp'.token = NoSignature \/ resp'.address = None
                THEN /\ resp'.status = "MissingCredentials"
                     /\ resp'.trail = Checks(0)
                ELSE /\ resp'.status = "InvalidCredential"
                     /\ resp'.trail = Checks(1)
                     /\ ~RecoverableIn(tokens, resp'.token)
       /\ \A p \in Procs :
            LET c == procs[p]
                d == procs'[p]
                rejected(n, stage, errors) ==
                    /\ d.pc = "idle"
                    /\ resp'.op = "request"
                    /\ resp'.stage = stage
                    /\ resp'.status \in errors
                    /\ resp'.trail = Checks(n)
            IN  /\ (c.pc = "idle" /\ Moved(p)) =>
                      /\ d.pc = "authMiddleware_renewToken"
                      /\ d.signature # NoSignature /\ d.signerAddress # None
                      /\ RecoverableIn(tokens, d.signature)
                      /\ d.userToken \in tokens
                      /\ d.userToken.token = d.signature
                      /\ d.trail = Checks(2)
                      /\ tokens' = tokens
                /\ (c.pc = "authMiddleware_renewToken" /\ Moved(p)) =>
                      IF now > c.userToken.expired_at
                      THEN /\ rejected(2, "auth", {"ExpiredSession"})
                           /\ tokens' = tokens
                      ELSE /\ d.pc = "authMiddleware_checkUserExists"
                           /\ d.trail = Checks(3)
                /\ (c.pc = "authMiddleware_checkUserExists" /\ Moved(p)) =>
                      /\ tokens' = tokens
                      /\ IF \E u \in users : u.address = c.signerAddress
                         THEN /\ d.pc = "authMiddleware_findLoggedWorkspace"
                              /\ d.user # None
                              /\ d.trail = Checks(3)
                         ELSE rejected(3, "auth", {"NotFound"})
                /\ (c.pc = "authMiddleware_findLoggedWorkspace" /\ Moved(p)) =>
                      /\ tokens' = tokens
                      /\ \/ d.pc = "endpoint" /\ d.trail = AllChecks
                         \/ rejected(4, "permission",
                                     {"MissingCredentials",
                                      "MissingPermission"})
                /\ (c.pc = "endpoint" /\ Moved(p)) =>
                      /\ c.trail = AllChecks
                      /\ d.pc = "idle"
                      /\ resp'.op = "request"
                      /\ resp'.stage = "endpoint"
                      /\ resp'.status = "Ok"
                      /\ resp'.trail = AllChecks
                      /\ tokens' = tokens
       /\ (resp'.op = "request" /\ resp' # resp) =>
             /\ resp'.stage = "endpoint" <=> resp'.status = "Ok"
             /\ resp'.stage = "endpoint" <=> resp'.trail = AllChecks
             /\ resp'.stage = "endpoint"
                => \E p \in Procs : procs[p].pc = "endpoint" /\ Moved(p)
      ]_vars

\* a request that declares a capability has passed the five checks and is
\* at the endpoint
C12_Witness ==
    \E p \in Procs :
        /\ procs[p].pc = "endpoint"
        /\ procs[p].permission = {"vault:create"}
        /\ procs[p].trail = AllChecks

\* C13 (ReqSpec): a request without the authorization header or without the
\* signerAddress header is answered with MissingCredentials in its first
\* step, before any check is passed and any session is read, and changes no
\* stored session; no request in flight is without one of the two.
C13_MissingCredentialsTouchNothing ==
    [][/\ (/\ resp'.op = "request"
           /\ resp' # resp
           /\ resp'.token = NoSignature \/ resp'.address = None)
          => /\ resp'.stage = "auth"
             /\ resp'.status = "MissingCredentials"
             /\ resp'.trail = <<>>
             /\ procs' = procs
             /\ tokens' = tokens
       /\ \A p \in Procs :
             procs'[p].pc # "idle"
             => /\ procs'[p].signature # NoSignature
                /\ procs'[p].signerAddress # None
      ]_vars

\* a request that presented the token of a stored session without a signer
\* address has been answered with MissingCredentials
C13_Witness ==
    /\ resp.op = "request"
    /\ resp.status = "MissingCredentials"
    /\ resp.stage = "auth"
    /\ resp.token # NoSignature
    /\ resp.address = None
    /\ \E r \in tokens : r.token = resp.token /\ Live(r)

\* C14 (GateSpec): whenever the endpoint declares a required capability
\* set, the empty set included, the permission gate answers
\* MissingCredentials if the user or the workspace is absent from the
\* request context, and with both present and the empty set it admits.
C14_DeclaredSetNeedsContext ==
    (resp.op = "gate" /\ resp.perm # NoPermission)
    => /\ (resp.user = None \/ resp.ws = None)
          => resp.status = "MissingCredentials"
       /\ (resp.user # None /\ resp.ws # None /\ resp.perm = {})
          => resp.status = "Ok"

\* C15 (EditSpec): updatePermissions on a stored workspace fails when the
\* target is the owner, whatever the submitted set, and then writes
\* nothing; for any other target it lists the workspace as it is stored and
\* goes on to save, and what it saves is the workspace it listed with the
\* target's entry set to the submitted set, every other entry and the
\* members as listed; no other workspace is written.
C15_OwnerEntryImmutable ==
    [][/\ (resp'.op = "updatePermissions" /\ resp'.ws \in DOMAIN workspaces)
          => IF resp'.target = workspaces[resp'.ws].owner
             THEN /\ resp'.status # "Ok"
                  /\ workspaces' = workspaces
             ELSE resp'.status = "Ok"
       /\ \A p \in Procs :
            LET c == procs[p]
                d == procs'[p]
            IN  /\ d.pc = "updatePermissions_save" => d.member # d.row.owner
                /\ (d.pc = "updatePermissions_save" /\ Moved(p)) =>
                      /\ workspaces' = workspaces
                      /\ d.row = workspaces[d.id]
                /\ (c.pc = "updatePermissions_save" /\ Moved(p)) =>
                      LET old == c.row.permissions
                          new == workspaces'[c.id].permissions
                      IN  /\ resp'.op = "updatePermissions"
                          /\ resp'.status = "Ok"
                          /\ DOMAIN new = DOMAIN old \cup {c.member}
                          /\ new[c.member] = c.permissions
                          /\ \A u \in DOMAIN old \ {c.member} :
                                new[u] = old[u]
                          /\ workspaces'[c.id].members = c.row.members
                          /\ workspaces'[c.id].owner = c.row.owner
                          /\ \A w \in DOMAIN workspaces \ {c.id} :
                                workspaces'[w] = workspaces[w]
      ]_vars

\* an updatePermissions on the owner of w1 has failed, while u2 holds the
\* custom entry an earlier updatePermissions gave
C15_Witness ==
    /\ resp.op = "updatePermissions"
    /\ resp.ws = "w1"
    /\ resp.target = workspaces["w1"].owner
    /\ resp.status = "MissingPermission"
    /\ workspaces["w1"].permissions["u1"] = OwnerPermissions
    /\ "u2" \in DOMAIN workspaces["w1"].permissions
    /\ workspaces["w1"].permissions["u2"] = {"vault:create"}

\* C16 (EditSpec): removeMember on a stored workspace whose target is the
\* owner fails and writes nothing; and after every step of addMember,
\* removeMember and updatePermissions, under every interleaving of two of
\* them, each workspace is still stored, its owner is the same user, and
\* the owner of every stored workspace is one of its members.
C16_OwnerNeverRemoved ==
    [][/\ (/\ resp'.op = "removeMember"
           /\ resp'.ws \in DOMAIN workspaces
           /\ resp'.target = workspaces[resp'.ws].owner)
          => /\ resp'.status # "Ok"
             /\ workspaces' = workspaces
       /\ \A w \in DOMAIN workspaces :
             /\ w \in DOMAIN workspaces'
             /\ workspaces'[w].owner = workspaces[w].owner
       /\ \A w \in DOMAIN workspaces' :
             workspaces'[w].owner \in workspaces'[w].members
      ]_vars

\* a removeMember on the owner of w1 has failed while w1 has a second
\* member
C16_Witness ==
    /\ resp.op = "removeMember"
    /\ resp.ws = "w1"
    /\ resp.target = workspaces["w1"].owner
    /\ resp.status = "MissingPermission"
    /\ workspaces["w1"].members = {"u1", "u2"}

\* C17 (EditSpec): when removeMember of a user who is not the owner has
\* saved, the user is not one of the members and has no entry in the
\* permissions map, whatever entry the user had; and when addMember has
\* saved for a user it did not find among the members, the user is a member
\* and the user's entry is the VIEWER default, whatever the map held for
\* that user.
C17_ReaddedMemberIsViewer ==
    [][\A p \in Procs :
         LET c == procs[p]
         IN  /\ (c.pc = "removeMember_save" /\ Moved(p)) =>
                   /\ resp'.op = "removeMember"
                   /\ resp'.status = "Ok"
                   /\ c.member \notin workspaces'[c.id].members
                   /\ c.member \notin DOMAIN workspaces'[c.id].permissions
             /\ (c.pc = "addMember_save" /\ Moved(p)) =>
                   /\ resp'.op = "addMember"
                   /\ resp'.status = "Ok"
                   /\ c._member \in workspaces'[c.id].members
                   /\ c._member \notin c.row.members
                      => /\ c._member \in DOMAIN workspaces'[c.id].permissions
                         /\ workspaces'[c.id].permissions[c._member]
                               = ViewerPermissions
      ]_vars

\* u2 has been added to w1 and holds the VIEWER default, while the other
\* request still holds the row it had listed before u2 was removed, in
\* which u2 is a member with a custom entry. u2 starts as a member with a
\* custom entry and no request submits the VIEWER set, so u2 holds the
\* VIEWER default only by having been removed and added again.
C17_Witness ==
    /\ resp.op = "addMember"
    /\ resp.status = "Ok"
    /\ resp.ws = "w1"
    /\ resp.user = "u2"
    /\ "u2" \in workspaces["w1"].members
    /\ "u2" \in DOMAIN workspaces["w1"].permissions
    /\ workspaces["w1"].permissions["u2"] = ViewerPermissions
    /\ \E q \in Procs :
          /\ procs[q].pc # "idle"
          /\ procs[q].id = "w1"
          /\ "u2" \in procs[q].row.members
          /\ "u2" \in DOMAIN procs[q].row.permissions
          /\ procs[q].row.permissions["u2"] \in {CustomPermissions, {Wildcard}}

\* C18 (EditSpec): an edit that saves the workspace leaves the membership
\* and the entry of every user other than the one it is about as they are
\* stored, so that what a concurrent edit has saved for its own member is
\* kept.
C18_NoLostUpdate ==
    [][\A p \in Procs :
         LET c == procs[p]
             own == IF c.op = "addMember" THEN c._member ELSE c.member
             before == workspaces[c.id]
             after == workspaces'[c.id]
         IN  (/\ c.pc \in {"updatePermissions_save", "addMember_save",
                           "removeMember_save"}
              /\ Moved(p))
             => \A m \in UserIds \ {own} :
                   /\ m \in after.members <=> m \in before.members
                   /\ m \in DOMAIN after.permissions
                         <=> m \in DOMAIN before.permissions
                   /\ m \in DOMAIN before.permissions
                      => after.permissions[m] = before.permissions[m]
      ]_vars

\* C19 (Spec): after signOut(user) the user has no stored session, live or
\* not; and as long as a user has no stored session, no request that
\* presents a token issued to that user gets past the recovery of the
\* session, and the user gets a session again only by a successful signIn
\* of that user.
C19_SignedOutTokenRejected ==
    [][/\ resp'.op = "signOut"
          => \A r \in tokens' : r.user # resp'.user
       /\ \A u \in Users :
             (\A r \in tokens : r.user # u)
             => /\ \A p \in Procs :
                      (procs[p].pc = "idle" /\ Moved(p))
                      => procs'[p].signature.message.user_id # u
                /\ (\E r \in tokens' : r.user = u)
                   => /\ resp'.op = "signIn"
                      /\ resp'.status = "Ok"
                      /\ resp'.user = u
      ]_vars

C21_VerifyBeforeStore ==
    [][/\ (resp'.op = "signIn" /\ resp'.status = "InvalidSignature")
          => /\ tokens' = tokens
             /\ procs' = procs
       /\ \A p \in Procs :
             (procs'[p].op = "signIn" /\ procs'[p].pc # "idle")
             => LET body == procs'[p].body
                IN  verifySignature(body.signature,
                                    Payload(body.address, body.user_id,
                                            body.createdAt),
                                    body.address)
       /\ (resp'.op = "signIn" /\ resp'.status = "Ok")
          => /\ resp'.token.signer = AddressOf[resp'.user]
             /\ resp'.token.message.user_id = resp'.user
             /\ resp'.token.message.address = AddressOf[resp'.user]
      ]_vars

\* a signIn for u2 has failed verification while u2 holds a live session
C21_Witness ==
    /\ resp.op = "signIn"
    /\ resp.status = "InvalidSignature"
    /\ resp.user = "u2"
    /\ \E r \in tokens : r.user = "u2" /\ Live(r)

\* C22 (WsSpec): every stored session is bound to a stored workspace, and a
\* signIn that answers with success has bound its session to a stored
\* workspace (the one named by workspace_id, or the single workspace of the
\* user); a signIn that finds no workspace stores nothing.
C22_SessionBoundToStoredWorkspace ==
    /\ \A r \in tokens : r.workspace \in DOMAIN workspaces
    /\ (resp.op = "signIn" /\ resp.status = "Ok")
       => /\ resp.ws \in DOMAIN workspaces
          /\ \E r \in tokens : r.token = resp.token /\ r.workspace = resp.ws

\* C23 (FailSpec): when a signIn with a valid signature has answered with an
\* error raised after the signature was verified, the session it found for
\* its user is still stored and live.
C23_FailedSignInKeepsSession ==
    (/\ resp.op = "signIn"
     /\ resp.status = "Error"
     /\ resp.prev # NoSignature)
    => \E r \in tokens :
          /\ r.token = resp.prev
          /\ r.user = resp.user
          /\ Live(r)

\* C24 (ReqSpec): whenever authMiddleware has passed a request on, the user
\* attached to the request context is the user of the session recovered
\* from the presented credential.
C24_ContextUserOwnsSession ==
    \A p \in Procs :
        procs[p].pc = "endpoint"
        => procs[p].user = procs[p].userToken.user

\* C25 (SwitchSpec): an updateWorkspace request of an authenticated
\* requester leaves the session of every other user as it is.
C25_SwitchOnlyOwnSession ==
    [][\A p \in Procs :
          (/\ procs[p].pc = "updateWorkspace_save"
           /\ Moved(p)
           /\ procs[p].userToken # NoRow)
          => \A r \in tokens :
                r.user # procs[p].userToken.user => r \in tokens'
      ]_vars

\* C26 (Spec): a session that is no longer recoverable becomes recoverable
\* again only by a successful signIn that issues its token anew; no step of
\* a request running alongside brings it back.
C26_InvalidatedStaysUnrecoverable ==
    [][\A t \in IssuedTokens :
          (~RecoverableIn(tokens, t) /\ RecoverableIn(tokens', t))
          => /\ resp'.op = "signIn"
             /\ resp'.status = "Ok"
             /\ resp'.token = t
      ]_vars

====
